---- MODULE Spec2Model ----
(***************************************************************************)
(* The credential / one-time-code / session lifecycle of the commerce      *)
(* authentication module: the route handlers under app/api/auth and        *)
(* app/api/user, getSession, the User and Otp models and the stores        *)
(* behind them.                                                            *)
(*                                                                         *)
(* Every handler is a sequence of awaited store calls; the model takes     *)
(* one step per store call, so two requests interleave exactly where the   *)
(* event loop lets them (at each await).  Local computation between two    *)
(* store calls (hashing, the expiry test, building the response) belongs   *)
(* to the step of the store call that precedes or follows it.              *)
(*                                                                         *)
(* Time is counted in minutes.                                             *)
(***************************************************************************)
EXTENDS Integers, Sequences, FiniteSets, TLC

(***************************************************************************)
(* Bounds of the model                                                     *)
(***************************************************************************)
MaxTime == 20        \* the clock stops advancing here
TickStep == 5        \* minutes between two observed instants
MaxOtps == 3         \* Otp documents ever inserted
NumSalts == 1        \* distinct bcrypt salts
SessionStep == 720   \* minutes between two instants of the session clock
MaxSessionTime == 1440  \* the session clock advances while before this
MaxConnects == 3     \* mongoose.connect calls ever started

Procs == {"r1", "r2"}                 \* concurrently served requests
Callers == Procs \cup {"r3"}          \* concurrent calls of connectToDatabase
Passwords == {"secret1", "secret2"}   \* plaintext passwords of requests
Codes == {"123456", "000000"}         \* codes submitted by callers
Salts == 1..NumSalts

(***************************************************************************)
(* Strings are sequences of one-character strings, so that the schema's    *)
(* lowercase / trim setters and its match validator are computed.          *)
(***************************************************************************)
EmailA == <<"a", "@", "x", ".", "i", "o">>
EmailAVariant == <<" ", "A", "@", "x", ".", "i", "o">>
EmailB == <<"b", "@", "x", ".", "i", "o">>
EmailACase == <<"A", "@", "x", ".", "i", "o">>   \* EmailA in another letter case
EmailBad == <<"a", "@", "x">>
Emails == {EmailA, EmailAVariant, EmailB, EmailBad}

UpperCase == {"A", "B", "X", "I", "O"}
WordChars == {"a", "b", "x", "i", "o"} \cup UpperCase
SepChars == {".", "-"}

LowerChar(c) ==
  CASE c = "A" -> "a"
    [] c = "B" -> "b"
    [] c = "X" -> "x"
    [] c = "I" -> "i"
    [] c = "O" -> "o"
    [] OTHER -> c

\* String.prototype.toLowerCase (schema option lowercase: true)
ToLowerCase(s) == [i \in 1..Len(s) |-> LowerChar(s[i])]

RECURSIVE TrimStart(_)
TrimStart(s) ==
  IF s # <<>> /\ Head(s) = " " THEN TrimStart(Tail(s)) ELSE s

RECURSIVE TrimEnd(_)
TrimEnd(s) ==
  IF s # <<>> /\ s[Len(s)] = " " THEN TrimEnd(SubSeq(s, 1, Len(s) - 1)) ELSE s

\* String.prototype.trim (schema option trim: true)
Trim(s) == TrimEnd(TrimStart(s))

\* The setters of UserSchema.email; Mongoose applies them to the documents
\* it writes and to the filters of the queries it casts.
EmailSetter(s) == ToLowerCase(Trim(s))

\* \w+([\.-]?\w+)* : word characters, single separators only between them
WordRun(s) ==
  /\ Len(s) > 0
  /\ \A i \in 1..Len(s) : s[i] \in WordChars \cup SepChars
  /\ s[1] \in WordChars
  /\ s[Len(s)] \in WordChars
  /\ \A i \in 1..(Len(s) - 1) : ~(s[i] \in SepChars /\ s[i + 1] \in SepChars)

\* \w+([\.-]?\w+)*(\.\w{2,3})+ : a word run, then a dot and 2..3 word characters
DomainPart(s) ==
  \E k \in {2, 3} :
    /\ Len(s) > k + 1
    /\ s[Len(s) - k] = "."
    /\ \A i \in (Len(s) - k + 1)..Len(s) : s[i] \in WordChars
    /\ WordRun(SubSeq(s, 1, Len(s) - k - 1))

\* UserSchema.email match: /^\w+([\.-]?\w+)*@\w+([\.-]?\w+)*(\.\w{2,3})+$/
EmailMatch(s) ==
  \E at \in 1..Len(s) :
    /\ s[at] = "@"
    /\ WordRun(SubSeq(s, 1, at - 1))
    /\ DomainPart(SubSeq(s, at + 1, Len(s)))

(***************************************************************************)
(* bcryptjs                                                                *)
(***************************************************************************)
\* bcrypt.hash(plain, 10): the digest carries its salt
Hash(plain, salt) == [salt |-> salt, digest |-> <<salt, plain>>]

\* bcrypt.compare(plain, hash): re-hash with the hash's salt and compare
Compare(plain, hash) == Hash(plain, hash.salt) = hash

(***************************************************************************)
(* Program constants (minutes)                                             *)
(***************************************************************************)
VerificationTtl == 10
ResetTtl == 15
TokenTtl == 1440

StaticCode == "123456"
JwtSecret == "JWT_SECRET"

(***************************************************************************)
(* State                                                                   *)
(***************************************************************************)
VARIABLES
  users,      \* User collection: sequence of documents, _id = index
  otps,       \* Otp collection: set of documents, each with its own _id
  nextOtpId,  \* next Otp _id
  now,        \* the clock
  pc,         \* per request slot: where its handler stands
  req,        \* per request slot: the body of the request it serves/served
  tmp,        \* per request slot: the handler's local (an _id or a date)
  resp,       \* per request slot: the response of its last request
  jar,        \* per request slot: the "token" cookie its client holds
  cached,     \* global.mongoose: conn and promise (0: null)
  connects,   \* the mongoose.connect calls so far: the state of each promise
  waiters,    \* the calls suspended at await cached.promise, oldest first
  jobs,       \* the microtask queue: continuations of settled awaits
  outcome     \* per caller: what its last connectToDatabase() gave

\* the connection cache and the calls of connectToDatabase
dbvars == <<cached, connects, waiters, jobs, outcome>>

vars == <<users, otps, nextOtpId, now, pc, req, tmp, resp, jar, dbvars>>

NoReq == [op |-> "none", email |-> <<>>, password |-> "", code |-> "", role |-> ""]
NoResp ==
  [status |-> 0, message |-> "", error |-> "", unverified |-> FALSE,
   userId |-> 0, role |-> "", cookie |-> <<>>]

\* NextResponse.json({ message }, { status })
Json(status, message) == [NoResp EXCEPT !.status = status, !.message = message]

\* the request body of a handler
Body(op, email, password, code, role) ==
  [op |-> op, email |-> email, password |-> password, code |-> code, role |-> role]

Init ==
  /\ users = <<>>
  /\ otps = {}
  /\ nextOtpId = 1
  /\ now = 0
  /\ pc = [p \in Procs |-> "idle"]
  /\ req = [p \in Procs |-> NoReq]
  /\ tmp = [p \in Procs |-> 0]
  /\ resp = [p \in Procs |-> NoResp]
  /\ jar = [p \in Procs |-> <<>>]
  /\ cached = [conn |-> 0, promise |-> 0]
  /\ connects = <<>>
  /\ waiters = <<>>
  /\ jobs = <<>>
  /\ outcome = [p \in Callers |-> "none"]

(***************************************************************************)
(* The stores                                                              *)
(***************************************************************************)
Roles == {"user", "admin"}

\* a findOne that ignores its filter
UserFindOneFirst(us, email) == IF Len(us) > 0 THEN 1 ELSE 0

\* a findOne whose filter is not cast through the setters
UserFindOneRaw(us, email) ==
  LET hits == {i \in 1..Len(us) : us[i].email = email}
  IN IF hits = {} THEN 0 ELSE CHOOSE i \in hits : \A j \in hits : i <= j

\* User.findOne({ email }): the filter is cast through the schema's setters;
\* 0 stands for null
UserFindOne(us, email) ==
  LET hits == {i \in 1..Len(us) : us[i].email = EmailSetter(email)}
  IN IF hits = {} THEN 0 ELSE CHOOSE i \in hits : \A j \in hits : i <= j

\* a collection without the unique index
UniqueViolationNever(us, email) == FALSE

\* the unique index on User.email (unique: true): does inserting email collide?
UniqueViolation(us, email) == \E i \in 1..Len(us) : us[i].email = email

\* document validation of User.create and of save() (required, match, enum);
\* the stored password is a bcrypt digest (60 characters)
UserValid(doc) ==
  /\ doc.name # ""
  /\ doc.email # <<>>
  /\ EmailMatch(doc.email)
  /\ doc.role \in Roles

\* the name a signup body carries
SignupName == "Ann"

\* the schema defaults of UserSchema.preferences
DefaultPreferences ==
  [notificationsEnabled |-> TRUE, darkMode |-> FALSE, newsletterSubscribed |-> FALSE]

\* a signup that stores the account as verified
NewUserVerified(body, salt) ==
  [email |-> EmailSetter(body.email),
   password |-> Hash(body.password, salt),
   role |-> IF body.role = "" THEN "user" ELSE body.role,
   isVerified |-> TRUE,
   name |-> SignupName,
   image |-> "",
   phoneNumber |-> "",
   bio |-> "",
   preferences |-> DefaultPreferences]

\* The document User.create builds from the signup body and the schema defaults
NewUser(body, salt) ==
  [email |-> EmailSetter(body.email),
   password |-> Hash(body.password, salt),
   role |-> IF body.role = "" THEN "user" ELSE body.role,
   isVerified |-> FALSE,
   name |-> SignupName,
   image |-> "",
   phoneNumber |-> "",
   bio |-> "",
   preferences |-> DefaultPreferences]

\* a findOne that ignores the type of the code
OtpMatchesAnyType(os, email, code, type) ==
  {o \in os : o.email = email /\ o.code = code}

\* Otp.findOne({ email, code, type }): OtpSchema.email has no setter, so the
\* match is on the string as submitted
OtpMatches(os, email, code, type) ==
  {o \in os : o.email = email /\ o.code = code /\ o.type = type}

\* the filter { email, type: "reset" } of forgot-password's upsert
ResetOtpsOf(os, email) == {o \in os : o.email = email /\ o.type = "reset"}

\* new Date() > otpRecord.expiresAt
IsExpired(o, t) == t > o.expiresAt

\* a deleteOne that removes nothing
OtpDeleteNone(os, id) == os

\* Otp.deleteOne({ _id })
OtpDeleteOne(os, id) == {o \in os : o.id # id}

\* jwt.sign({ userId, role }, JWT_SECRET, { expiresIn: "1d" })
JwtSign(userId, role, t) ==
  [userId |-> userId, role |-> role, iat |-> t, exp |-> t + TokenTtl, key |-> JwtSecret]

\* requests that may still insert an Otp document
OtpWriters == {p \in Procs : pc[p] \in {"su_create", "su_otp", "fp_upsert", "fp_insert"}}
OtpBudget == nextOtpId + Cardinality(OtpWriters) <= MaxOtps

\* the handler returns r: the caller holds the response.  tmp keeps x, the _id
\* of the Otp document the request consumed (0: none).
Finish(p, r, x) ==
  /\ pc' = [pc EXCEPT ![p] = "idle"]
  /\ req' = [req EXCEPT ![p] = NoReq]
  /\ tmp' = [tmp EXCEPT ![p] = x]
  /\ resp' = [resp EXCEPT ![p] = r]

\* the handler awaits its next store call, with body b and local x
Goto(p, label, b, x) ==
  /\ pc' = [pc EXCEPT ![p] = label]
  /\ req' = [req EXCEPT ![p] = b]
  /\ tmp' = [tmp EXCEPT ![p] = x]
  /\ resp' = [resp EXCEPT ![p] = NoResp]

(***************************************************************************)
(* POST /api/auth/signup                                                   *)
(***************************************************************************)
DuplicateEmail == Json(400, "A user with this email already exists")
SignupError(detail) == [Json(500, "Server error during registration") EXCEPT !.error = detail]
SignupCreated(id) ==
  [Json(201, "User registered successfully. Please verify your email.") EXCEPT !.userId = id]

\* const existingUser = await User.findOne({ email })
SignupFind(p, email, password, role) ==
  /\ pc[p] = "idle"
  /\ OtpBudget
  /\ IF UserFindOne(users, email) # 0
       THEN Finish(p, DuplicateEmail, 0)
       ELSE Goto(p, "su_create", Body("signup", email, password, "", role), 0)
  /\ UNCHANGED <<users, otps, nextOtpId, now, jar, dbvars>>

\* bcrypt.hash, then await User.create({...}); a throw lands in the catch
SignupCreate(p, salt) ==
  /\ pc[p] = "su_create"
  /\ LET doc == NewUser(req[p], salt) IN
       IF ~UserValid(doc)
         THEN /\ Finish(p, SignupError("User validation failed"), 0)
              /\ UNCHANGED users
       ELSE IF UniqueViolation(users, doc.email)
         THEN /\ Finish(p, SignupError("E11000 duplicate key error"), 0)
              /\ UNCHANGED users
       ELSE /\ users' = Append(users, doc)
            /\ Goto(p, "su_otp", req[p], Len(users) + 1)
  /\ UNCHANGED <<otps, nextOtpId, now, jar, dbvars>>

\* await Otp.create({ email, code: "123456", type: "verification", expiresAt })
SignupOtp(p) ==
  /\ pc[p] = "su_otp"
  /\ otps' = otps \cup {[id |-> nextOtpId, email |-> req[p].email, code |-> StaticCode,
                         type |-> "verification", expiresAt |-> now + VerificationTtl]}
  /\ nextOtpId' = nextOtpId + 1
  /\ Finish(p, SignupCreated(tmp[p]), 0)
  /\ UNCHANGED <<users, now, jar, dbvars>>

(***************************************************************************)
(* POST /api/auth/verify-otp                                               *)
(***************************************************************************)
InvalidVerificationCode == Json(400, "Invalid or expired verification code")
VerificationExpired == Json(400, "Verification code has expired")
Verified == Json(200, "Account verified successfully. You can now login.")

\* await Otp.findOne({ email, code, type: "verification" }), then the expiry test
VerifyFind(p, email, code) ==
  /\ pc[p] = "idle"
  /\ LET hits == OtpMatches(otps, email, code, "verification") IN
       IF hits = {}
         THEN Finish(p, InvalidVerificationCode, 0)
         ELSE \E o \in hits :
                Goto(p, IF IsExpired(o, now) THEN "vo_expired" ELSE "vo_update",
                     Body("verify", email, "", code, ""), o.id)
  /\ UNCHANGED <<users, otps, nextOtpId, now, jar, dbvars>>

\* expired: await Otp.deleteOne({ _id }) and answer 400
VerifyExpired(p) ==
  /\ pc[p] = "vo_expired"
  /\ otps' = OtpDeleteOne(otps, tmp[p])
  /\ Finish(p, VerificationExpired, 0)
  /\ UNCHANGED <<users, nextOtpId, now, jar, dbvars>>

\* await User.findOneAndUpdate({ email }, { isVerified: true })
VerifyUpdate(p) ==
  /\ pc[p] = "vo_update"
  /\ LET i == UserFindOne(users, req[p].email) IN
       users' = IF i = 0 THEN users ELSE [users EXCEPT ![i].isVerified = TRUE]
  /\ Goto(p, "vo_delete", req[p], tmp[p])
  /\ UNCHANGED <<otps, nextOtpId, now, jar, dbvars>>

\* await Otp.deleteOne({ _id }) and answer 200
VerifyDelete(p) ==
  /\ pc[p] = "vo_delete"
  /\ otps' = OtpDeleteOne(otps, tmp[p])
  /\ Finish(p, Verified, tmp[p])
  /\ UNCHANGED <<users, nextOtpId, now, jar, dbvars>>

(***************************************************************************)
(* POST /api/auth/login                                                    *)
(***************************************************************************)
InvalidCredentials == Json(401, "Invalid email or password")
NotVerified ==
  [Json(403, "Please verify your email before logging in") EXCEPT !.unverified = TRUE]

LoginOk(us, i, t) ==
  [Json(200, "Login successful")
     EXCEPT !.userId = i, !.role = us[i].role, !.cookie = <<JwtSign(i, us[i].role, t)>>]

\* a login that compares the password before it looks at isVerified
LoginResponsePasswordFirst(us, email, password, t) ==
  LET i == UserFindOne(us, email) IN
    IF i = 0 THEN InvalidCredentials
    ELSE IF ~Compare(password, us[i].password) THEN InvalidCredentials
    ELSE IF ~us[i].isVerified THEN NotVerified
    ELSE LoginOk(us, i, t)

\* a login that tells an unknown email from a wrong password
LoginResponseUserNotFound(us, email, password, t) ==
  LET i == UserFindOne(us, email) IN
    IF i = 0 THEN Json(401, "User not found")
    ELSE IF ~us[i].isVerified THEN NotVerified
    ELSE IF ~Compare(password, us[i].password) THEN InvalidCredentials
    ELSE LoginOk(us, i, t)

\* the handler after its one store call: find user -> verified? -> compare -> token
LoginResponse(us, email, password, t) ==
  LET i == UserFindOne(us, email) IN
    IF i = 0 THEN InvalidCredentials
    ELSE IF ~us[i].isVerified THEN NotVerified
    ELSE IF ~Compare(password, us[i].password) THEN InvalidCredentials
    ELSE LoginOk(us, i, t)

\* await User.findOne({ email }).select("+password") and the rest of the handler
Login(p, email, password) ==
  /\ pc[p] = "idle"
  /\ Finish(p, LoginResponse(users, email, password, now), 0)
  /\ UNCHANGED <<users, otps, nextOtpId, now, jar, dbvars>>

(***************************************************************************)
(* POST /api/auth/forgot-password                                          *)
(***************************************************************************)
ResetNotSent == Json(200, "If an account exists with this email, we have sent a reset code.")
ResetSent == Json(200, "Reset code sent to your email.")

\* the acknowledgment the handler ends with, for the user its findOne returned
ForgotAck(us, email) == IF UserFindOne(us, email) = 0 THEN ResetNotSent ELSE ResetSent

\* const user = await User.findOne({ email })
ForgotFind(p, email) ==
  /\ pc[p] = "idle"
  /\ OtpBudget
  /\ IF UserFindOne(users, email) = 0
       THEN Finish(p, ForgotAck(users, email), 0)
       ELSE Goto(p, "fp_upsert", Body("forgot", email, "", "", ""), 0)
  /\ UNCHANGED <<users, otps, nextOtpId, now, jar, dbvars>>

\* await Otp.findOneAndUpdate({ email, type: "reset" }, { code, expiresAt },
\* { upsert: true }): a matching document is updated in place (atomically);
\* with none matching the server goes on to insert.  Otp has no unique index
\* on (email, type), so the insert of one upsert does not exclude another's.
ForgotUpsert(p) ==
  /\ pc[p] = "fp_upsert"
  /\ LET hits == ResetOtpsOf(otps, req[p].email) IN
       IF hits = {}
         THEN /\ Goto(p, "fp_insert", req[p], now + ResetTtl)
              /\ UNCHANGED otps
         ELSE \E o \in hits :
                /\ otps' = (otps \ {o}) \cup
                             {[o EXCEPT !.code = StaticCode, !.expiresAt = now + ResetTtl]}
                /\ Finish(p, ResetSent, 0)
  /\ UNCHANGED <<users, nextOtpId, now, jar, dbvars>>

\* the insert half of the upsert
ForgotInsert(p) ==
  /\ pc[p] = "fp_insert"
  /\ otps' = otps \cup {[id |-> nextOtpId, email |-> req[p].email, code |-> StaticCode,
                         type |-> "reset", expiresAt |-> tmp[p]]}
  /\ nextOtpId' = nextOtpId + 1
  /\ Finish(p, ResetSent, 0)
  /\ UNCHANGED <<users, now, jar, dbvars>>

(***************************************************************************)
(* POST /api/auth/reset-password                                           *)
(***************************************************************************)
InvalidResetCode == Json(400, "Invalid or expired reset code")
PasswordReset == Json(200, "Password updated successfully. You can now login.")

\* const otpRecord = await Otp.findOne({ email, code, type: "reset" })
ResetFind(p, email, code, newPassword) ==
  /\ pc[p] = "idle"
  /\ LET hits == OtpMatches(otps, email, code, "reset") IN
       IF hits = {}
         THEN Finish(p, InvalidResetCode, 0)
         ELSE \E o \in hits :
                Goto(p, "rp_update", Body("reset", email, newPassword, code, ""), o.id)
  /\ UNCHANGED <<users, otps, nextOtpId, now, jar, dbvars>>

\* a reset-password whose update writes nothing
ResetWriteNothing(us, email, password, salt) == us

\* the User collection after reset-password's write
ResetWrite(us, email, password, salt) ==
  LET i == UserFindOne(us, email) IN
    IF i = 0 THEN us ELSE [us EXCEPT ![i].password = Hash(password, salt)]

\* bcrypt.hash, then await User.findOneAndUpdate({ email }, { password })
ResetUpdate(p, salt) ==
  /\ pc[p] = "rp_update"
  /\ users' = ResetWrite(users, req[p].email, req[p].password, salt)
  /\ Goto(p, "rp_delete", req[p], tmp[p])
  /\ UNCHANGED <<otps, nextOtpId, now, jar, dbvars>>

\* await Otp.deleteOne({ _id }) and answer 200
ResetDelete(p) ==
  /\ pc[p] = "rp_delete"
  /\ otps' = OtpDeleteOne(otps, tmp[p])
  /\ Finish(p, PasswordReset, tmp[p])
  /\ UNCHANGED <<users, nextOtpId, now, jar, dbvars>>

(***************************************************************************)
(* lib/auth.ts: the session behind the "token" cookie                      *)
(***************************************************************************)
\* getSession's null
NullSession == [userId |-> 0, role |-> "", iat |-> 0, exp |-> 0]

\* the payload jwt.verify decodes
Decoded(token) ==
  [userId |-> token.userId, role |-> token.role, iat |-> token.iat, exp |-> token.exp]

\* a jwt.verify that does not look at exp
JwtVerifiesForever(token, t) == token.key = JwtSecret

\* a jwt.verify that rejects a token once the clock has moved on from its issue
JwtVerifiesSameInstant(token, t) == token.key = JwtSecret /\ t <= token.iat

\* a jwt.verify that does not check the signature
JwtVerifiesUnsigned(token, t) == t < token.exp

\* jwt.verify(token, JWT_SECRET) does not throw: the token carries a signature,
\* the signature is the secret's, and the clock has not reached exp
JwtVerifies(token, t) ==
  /\ token.key # ""
  /\ token.key = JwtSecret
  /\ t < token.exp

\* getSession(): no cookie -> null; jwt.verify throws -> null; else the payload
GetSession(cookie, t) ==
  IF cookie = <<>> THEN NullSession
  ELSE IF JwtVerifies(cookie[1], t) THEN Decoded(cookie[1])
  ELSE NullSession

\* tokens a caller can make without the server secret: signed with another
\* key, or carrying no signature
ForeignToken(userId, t) == [JwtSign(userId, "admin", t) EXCEPT !.key = "attacker_secret"]
UnsignedToken(userId, t) == [JwtSign(userId, "admin", t) EXCEPT !.key = ""]

\* the cookies a request may arrive with: none, one a client holds, or one
\* the caller made up
Cookies ==
  {<<>>} \cup {jar[p] : p \in Procs}
         \cup {<<ForeignToken(1, now)>>, <<UnsignedToken(2, now)>>}

\* POST /api/auth/login answered to a client that keeps the cookie the
\* response sets (response.cookies.set("token", token, ...))
LoginSetCookie(p, email, password) ==
  /\ pc[p] = "idle"
  /\ LET r == LoginResponse(users, email, password, now) IN
       /\ Finish(p, r, 0)
       /\ jar' = IF r.status = 200 THEN [jar EXCEPT ![p] = r.cookie] ELSE jar
  /\ UNCHANGED <<users, otps, nextOtpId, now, dbvars>>

(***************************************************************************)
(* PATCH /api/user/password, GET and PATCH /api/user/profile,              *)
(* PATCH /api/user/settings                                                *)
(***************************************************************************)
Unauthorized == Json(401, "Unauthorized")
UserNotFound == Json(404, "User not found")
IncorrectPassword == Json(400, "Incorrect current password")
PasswordUpdated == Json(200, "Password updated successfully")
ServerError == Json(500, "Server error")
ProfileFetched(i) == [Json(200, "") EXCEPT !.userId = i]
ProfileUpdated(i) == [Json(200, "Profile updated successfully") EXCEPT !.userId = i]
SettingsUpdated(i) == [Json(200, "Settings updated successfully") EXCEPT !.userId = i]

\* User.findById(id): 0 stands for null
UserFindById(us, id) == IF id \in 1..Len(us) THEN id ELSE 0

\* getSession, then await User.findById(session.userId).select("+password"),
\* then bcrypt.compare; save() will validate the document loaded here
PasswordFind(p, cookie, currentPassword, newPassword) ==
  /\ pc[p] = "idle"
  /\ LET session == GetSession(cookie, now)
         i == UserFindById(users, session.userId)
     IN IF session = NullSession THEN Finish(p, Unauthorized, 0)
        ELSE IF i = 0 THEN Finish(p, UserNotFound, 0)
        ELSE IF ~Compare(currentPassword, users[i].password)
          THEN Finish(p, IncorrectPassword, 0)
        ELSE Goto(p, IF UserValid(users[i]) THEN "pw_save" ELSE "pw_invalid",
                  Body("password", <<>>, newPassword, "", ""), i)
  /\ UNCHANGED <<users, otps, nextOtpId, now, jar, dbvars>>

\* the User collection after user.password = hashedPassword; user.save()
PasswordWrite(us, i, password, salt) ==
  [us EXCEPT ![i].password = Hash(password, salt)]

\* bcrypt.genSalt, bcrypt.hash, then await user.save(): a document that fails
\* validation is not written and the throw lands in the catch
PasswordSave(p, salt) ==
  /\ pc[p] \in {"pw_save", "pw_invalid"}
  /\ IF pc[p] = "pw_invalid"
       THEN /\ Finish(p, ServerError, 0)
            /\ UNCHANGED users
       ELSE /\ users' = PasswordWrite(users, tmp[p], req[p].password, salt)
            /\ Finish(p, PasswordUpdated, 0)
  /\ UNCHANGED <<otps, nextOtpId, now, jar, dbvars>>

\* getSession, then await User.findById(session.userId)
ProfileGet(p, cookie) ==
  /\ pc[p] = "idle"
  /\ LET session == GetSession(cookie, now)
         i == UserFindById(users, session.userId)
     IN IF session = NullSession THEN Finish(p, Unauthorized, 0)
        ELSE IF i = 0 THEN Finish(p, UserNotFound, 0)
        ELSE Finish(p, ProfileFetched(i), 0)
  /\ UNCHANGED <<users, otps, nextOtpId, now, jar, dbvars>>

\* a field of a request body: <<>> when the body does not carry it (the
\* destructured variable is undefined), <<v>> when it carries v
Given(field, stored) == IF field = <<>> THEN stored ELSE field[1]

\* an update that stores undefined fields as ""
ProfileSetAll(doc, body) ==
  [doc EXCEPT !.name = IF body.name = <<>> THEN "" ELSE body.name[1],
              !.bio = IF body.bio = <<>> THEN "" ELSE body.bio[1],
              !.phoneNumber = IF body.phoneNumber = <<>> THEN "" ELSE body.phoneNumber[1],
              !.image = IF body.image = <<>> THEN "" ELSE body.image[1]]

\* an update that also resets the verification flag
ProfileSetUnverify(doc, body) ==
  [doc EXCEPT !.name = Given(body.name, @),
              !.bio = Given(body.bio, @),
              !.phoneNumber = Given(body.phoneNumber, @),
              !.image = Given(body.image, @),
              !.isVerified = FALSE]

\* { $set: { name, bio, phoneNumber, image } }: Mongoose drops the keys whose
\* value is undefined and sets the others (no validators run on an update)
ProfileSet(doc, body) ==
  [doc EXCEPT !.name = Given(body.name, @),
              !.bio = Given(body.bio, @),
              !.phoneNumber = Given(body.phoneNumber, @),
              !.image = Given(body.image, @)]

\* getSession, then await User.findByIdAndUpdate(session.userId, { $set }, { new: true })
ProfilePatch(p, cookie, body) ==
  /\ pc[p] = "idle"
  /\ LET session == GetSession(cookie, now)
         i == UserFindById(users, session.userId)
     IN IF session = NullSession
          THEN /\ Finish(p, Unauthorized, 0)
               /\ UNCHANGED users
        ELSE /\ users' = IF i = 0 THEN users ELSE [users EXCEPT ![i] = ProfileSet(@, body)]
             /\ Finish(p, ProfileUpdated(i), 0)
  /\ UNCHANGED <<otps, nextOtpId, now, jar, dbvars>>

\* { $set: { "preferences.notificationsEnabled": ..., "preferences.darkMode": ...,
\* "preferences.newsletterSubscribed": ... } } with dot notation
PreferencesSet(doc, prefs) ==
  [doc EXCEPT !.preferences.notificationsEnabled = Given(prefs.notificationsEnabled, @),
              !.preferences.darkMode = Given(prefs.darkMode, @),
              !.preferences.newsletterSubscribed = Given(prefs.newsletterSubscribed, @)]

\* getSession, then await User.findByIdAndUpdate(session.userId, { $set }, { new: true });
\* body.preferences is <<>> when the body has no preferences object: reading
\* preferences.notificationsEnabled throws, as does updatedUser.preferences
\* when no user was found
SettingsPatch(p, cookie, body) ==
  /\ pc[p] = "idle"
  /\ LET session == GetSession(cookie, now)
         i == UserFindById(users, session.userId)
     IN IF session = NullSession
          THEN /\ Finish(p, Unauthorized, 0)
               /\ UNCHANGED users
        ELSE IF body.preferences = <<>> \/ i = 0
          THEN /\ Finish(p, ServerError, 0)
               /\ UNCHANGED users
        ELSE /\ users' = [users EXCEPT ![i] = PreferencesSet(@, body.preferences[1])]
             /\ Finish(p, SettingsUpdated(i), 0)
  /\ UNCHANGED <<otps, nextOtpId, now, jar, dbvars>>

(***************************************************************************)
(* The catch of every handler: an awaited store call (connectToDatabase    *)
(* included) rejects                                                       *)
(***************************************************************************)
VerifyError == Json(500, "Server error during verification")
LoginError == Json(500, "Server error during login")
ForgotError == Json(500, "Server error during request")
ResetError == Json(500, "Server error during password reset")

\* error.message of a rejected store call
StoreDown == "connect ECONNREFUSED"

Ops == {"signup", "verify", "login", "forgot", "reset", "password", "profile", "settings"}
SessionOps == {"password", "profile", "settings"}

\* the handler a slot is in the middle of
OpOf(label) ==
  CASE label \in {"su_create", "su_otp"} -> "signup"
    [] label \in {"vo_expired", "vo_update", "vo_delete"} -> "verify"
    [] label \in {"fp_upsert", "fp_insert"} -> "forgot"
    [] label \in {"rp_update", "rp_delete"} -> "reset"
    [] label \in {"pw_save", "pw_invalid"} -> "password"
    [] OTHER -> "none"

\* what the catch block of each handler answers to an error with message detail
Catch(op, detail) ==
  CASE op = "signup" -> SignupError(detail)
    [] op = "verify" -> VerifyError
    [] op = "login" -> LoginError
    [] op = "forgot" -> ForgotError
    [] op = "reset" -> ResetError
    [] OTHER -> ServerError

\* the store call a handler of op awaits rejects: at arrival (connectToDatabase
\* or the first query; the session routes connect only after getSession has
\* returned a session) or at a later call of a handler under way; nothing is
\* written by the failed call
StoreFailure(p, op, cookie) ==
  /\ IF pc[p] = "idle"
       THEN op \in SessionOps => GetSession(cookie, now) # NullSession
       ELSE op = OpOf(pc[p])
  /\ Finish(p, Catch(op, StoreDown), 0)
  /\ UNCHANGED <<users, otps, nextOtpId, now, jar, dbvars>>

(***************************************************************************)
(* connectToDatabase and the cache it keeps on global.mongoose.  A promise  *)
(* is the index of its mongoose.connect call in connects; the connection    *)
(* it resolves to carries the same index.  A settled promise queues the     *)
(* continuations of the calls awaiting it, oldest first, and the event      *)
(* loop runs the microtask queue empty before it dispatches anything else.  *)
(***************************************************************************)
\* the requests, database variables aside
appvars == <<users, otps, nextOtpId, now, pc, req, tmp, resp, jar>>

\* the mongoose.connect calls whose promise is still pending
InFlight(cs) == {k \in 1..Len(cs) : cs[k] = "pending"}

\* a call that connects whenever no connection is cached
StartsConnectAlways(c) == c.conn = 0

\* past if (cached?.conn) return ...: if (!cached?.promise)
StartsConnect(c) == c.conn = 0 /\ c.promise = 0

\* a catch that keeps the rejected promise
CatchKeeps(c) == c

\* catch (e) { cached.promise = null; throw e }
CatchClears(c) == [c EXCEPT !.promise = 0]

\* a caller in the middle of connectToDatabase()
Connecting(p) ==
  \/ \E i \in 1..Len(waiters) : waiters[i].proc = p
  \/ \E i \in 1..Len(jobs) : jobs[i].proc = p

\* requests and I/O callbacks are dispatched once the microtask queue is empty
CanArrive == jobs = <<>>

\* connectToDatabase() up to its await: return the cached connection, or
\* store the promise of a new mongoose.connect if none is cached, and await
\* cached.promise
ConnectCall(p) ==
  /\ CanArrive
  /\ ~Connecting(p)
  /\ IF cached.conn # 0
       THEN /\ outcome' = [outcome EXCEPT ![p] = "conn"]
            /\ UNCHANGED <<cached, connects, waiters, jobs>>
       ELSE /\ StartsConnect(cached) => Len(connects) < MaxConnects
            /\ LET cs == IF StartsConnect(cached) THEN Append(connects, "pending")
                                                  ELSE connects
                   k == IF StartsConnect(cached) THEN Len(cs) ELSE cached.promise
               IN /\ connects' = cs
                  /\ cached' = [cached EXCEPT !.promise = k]
                  /\ IF cs[k] = "pending"
                       THEN /\ waiters' = Append(waiters, [proc |-> p, on |-> k])
                            /\ UNCHANGED jobs
                       ELSE /\ jobs' = Append(jobs, [proc |-> p, on |-> k])
                            /\ UNCHANGED waiters
            /\ outcome' = [outcome EXCEPT ![p] = "none"]
  /\ UNCHANGED appvars

\* the promise of mongoose.connect call k settles: the continuations of the
\* calls awaiting it are queued together
ConnectSettles(k, r) ==
  /\ CanArrive
  /\ k \in InFlight(connects)
  /\ connects' = [connects EXCEPT ![k] = r]
  /\ jobs' = jobs \o SelectSeq(waiters, LAMBDA w : w.on = k)
  /\ waiters' = SelectSeq(waiters, LAMBDA w : w.on # k)
  /\ UNCHANGED <<cached, outcome>>
  /\ UNCHANGED appvars

\* the continuation of one await cached.promise: cached.conn = the
\* connection and return it, or the catch block
ConnectResume ==
  /\ jobs # <<>>
  /\ LET w == Head(jobs) IN
       IF connects[w.on] = "resolved"
         THEN /\ cached' = [cached EXCEPT !.conn = w.on]
              /\ outcome' = [outcome EXCEPT ![w.proc] = "conn"]
         ELSE /\ cached' = CatchClears(cached)
              /\ outcome' = [outcome EXCEPT ![w.proc] = "error"]
  /\ jobs' = Tail(jobs)
  /\ UNCHANGED <<connects, waiters>>
  /\ UNCHANGED appvars

(***************************************************************************)
(* The environment: the clock, and MongoDB's TTL monitor on Otp.expiresAt  *)
(***************************************************************************)
Tick ==
  /\ now + TickStep <= MaxTime
  /\ now' = now + TickStep
  /\ UNCHANGED <<users, otps, nextOtpId, pc, req, tmp, resp, jar, dbvars>>

\* index: { expires: 0 }: some time after expiresAt the document is removed
TtlPurge ==
  /\ \E o \in otps :
       /\ o.expiresAt < now
       /\ otps' = otps \ {o}
  /\ UNCHANGED <<users, nextOtpId, now, pc, req, tmp, resp, jar, dbvars>>

\* the clock over the life of a session token
TickSession ==
  /\ now < MaxSessionTime
  /\ now' = now + SessionStep
  /\ UNCHANGED <<users, otps, nextOtpId, pc, req, tmp, resp, jar, dbvars>>

SignupRoles == {"", "admin"}

\* one step of a handler serving a request slot of P, with emails drawn from E
\* and signup roles from R
Handlers(P, E, R) ==
  \/ \E p \in P, e \in E, w \in Passwords, r \in R : SignupFind(p, e, w, r)
  \/ \E p \in P, s \in Salts : SignupCreate(p, s)
  \/ \E p \in P : SignupOtp(p)
  \/ \E p \in P, e \in E, c \in Codes : VerifyFind(p, e, c)
  \/ \E p \in P : VerifyUpdate(p)
  \/ \E p \in P : VerifyDelete(p)
  \/ \E p \in P, e \in E, w \in Passwords : Login(p, e, w)
  \/ \E p \in P, e \in E : ForgotFind(p, e)
  \/ \E p \in P : ForgotUpsert(p)
  \/ \E p \in P : ForgotInsert(p)
  \/ \E p \in P, e \in E, c \in Codes, w \in Passwords : ResetFind(p, e, c, w)
  \/ \E p \in P, s \in Salts : ResetUpdate(p, s)
  \/ \E p \in P : ResetDelete(p)

\* Two requests served concurrently within one instant of the clock (nothing
\* expires, so verify-otp's expired branch and the TTL monitor have no step),
\* on one account spelled two ways and one malformed email.
Next == Handlers(Procs, {EmailA, EmailAVariant, EmailBad}, {""})

Spec == Init /\ [][Next]_vars

\* Requests served one at a time while the clock runs and the TTL monitor purges.
NextClock ==
  \/ Handlers({"r1"}, {EmailA, EmailAVariant, EmailBad}, {""})
  \/ \E p \in {"r1"} : VerifyExpired(p)
  \/ Tick
  \/ TtlPurge

SpecClock == Init /\ [][NextClock]_vars

\* Requests served one at a time within one instant, on two accounts (and one
\* malformed email), with the role the signup body may carry.
NextUsers == Handlers({"r1"}, {EmailA, EmailB, EmailBad}, SignupRoles)

SpecUsers == Init /\ [][NextUsers]_vars

\* the request bodies of PATCH /api/user/profile and PATCH /api/user/settings
Maybe(S) == {<<>>} \cup {<<v>> : v \in S}
ProfileBodies ==
  [name : Maybe({"", "Bob"}), bio : Maybe({"hi"}), phoneNumber : {<<>>}, image : Maybe({"img"})]
PreferencesBodies ==
  [notificationsEnabled : Maybe({FALSE}), darkMode : Maybe({TRUE}),
   newsletterSubscribed : Maybe({TRUE})]
SettingsBodies == [preferences : Maybe(PreferencesBodies)]

\* the session routes, for clients that keep the cookie of their login
SessionHandlers(P, E, PB, SB) ==
  \/ \E p \in P, e \in E, w \in Passwords : LoginSetCookie(p, e, w)
  \/ \E p \in P, c \in Cookies : ProfileGet(p, c)
  \/ \E p \in P, c \in Cookies, b \in PB : ProfilePatch(p, c, b)
  \/ \E p \in P, c \in Cookies, b \in SB : SettingsPatch(p, c, b)

\* PATCH /api/user/password
PasswordHandlers(P) ==
  \/ \E p \in P, c \in Cookies, w \in Passwords, n \in Passwords : PasswordFind(p, c, w, n)
  \/ \E p \in P, s \in Salts : PasswordSave(p, s)

\* signup and verify-otp with the code signup issues
Enrolment(P, E) ==
  \/ \E p \in P, e \in E, w \in Passwords : SignupFind(p, e, w, "")
  \/ \E p \in P, s \in Salts : SignupCreate(p, s)
  \/ \E p \in P : SignupOtp(p)
  \/ \E p \in P, e \in E : VerifyFind(p, e, StaticCode)
  \/ \E p \in P : VerifyUpdate(p)
  \/ \E p \in P : VerifyDelete(p)

\* bodies that blank the name, rename, and switch one preference
BlankName == [name |-> <<"">>, bio |-> <<>>, phoneNumber |-> <<>>, image |-> <<>>]
Rename == [name |-> <<"Bob">>, bio |-> <<>>, phoneNumber |-> <<>>, image |-> <<>>]
DarkModeOn ==
  [preferences |-> <<[notificationsEnabled |-> <<>>, darkMode |-> <<TRUE>>,
                      newsletterSubscribed |-> <<>>]>>]
NoPreferences == [preferences |-> <<>>]

\* One client over the life of its session token: every handler, one account,
\* the clock running past the token's expiry.
NextSession ==
  \/ Handlers({"r1"}, {EmailA}, {""})
  \/ \E p \in {"r1"} : VerifyExpired(p)
  \/ SessionHandlers({"r1"}, {EmailA}, {BlankName}, {NoPreferences})
  \/ PasswordHandlers({"r1"})
  \/ TickSession

SpecSession == Init /\ [][NextSession]_vars

\* One client within one instant, on two accounts, signing up, verifying,
\* logging in and using the session routes.
NextAccount ==
  \/ Enrolment({"r1"}, {EmailA, EmailB})
  \/ SessionHandlers({"r1"}, {EmailA, EmailB}, {Rename}, {DarkModeOn})
  \/ PasswordHandlers({"r1"})

SpecAccount == Init /\ [][NextAccount]_vars

\* One client within one instant, on one account, over the bodies of the
\* profile and settings routes.
NextProfile ==
  \/ Enrolment({"r1"}, {EmailA})
  \/ SessionHandlers({"r1"}, {EmailA}, ProfileBodies, SettingsBodies)

SpecProfile == Init /\ [][NextProfile]_vars

\* One client within one instant while store calls may fail.
NextFailure ==
  \/ Handlers({"r1"}, {EmailA, EmailBad}, {""})
  \/ \E p \in {"r1"}, e \in {EmailA}, w \in Passwords : LoginSetCookie(p, e, w)
  \/ PasswordHandlers({"r1"})
  \/ \E p \in {"r1"}, op \in Ops, c \in Cookies : StoreFailure(p, op, c)

SpecFailure == Init /\ [][NextFailure]_vars

\* One client within one instant, on one account whose email the requests
\* spell in two letter cases.
NextCase == Handlers({"r1"}, {EmailA, EmailACase}, {""})

SpecCase == Init /\ [][NextCase]_vars

\* Three requests calling connectToDatabase while connects succeed or fail.
NextConnect ==
  \/ \E p \in Callers : ConnectCall(p)
  \/ \E k \in 1..MaxConnects, r \in {"resolved", "rejected"} : ConnectSettles(k, r)
  \/ ConnectResume

SpecConnect == Init /\ [][NextConnect]_vars

\* Two clients signing up and verifying concurrently within one instant, on
\* one account spelled two ways.
NextEnrol == Enrolment(Procs, {EmailA, EmailAVariant})

SpecEnrol == Init /\ [][NextEnrol]_vars

(***************************************************************************)
(* Properties                                                              *)
(***************************************************************************)
\* the User documents stored under the email a caller spells e
UsersOf(e) == {i \in 1..Len(users) : users[i].email = EmailSetter(e)}

\* C1: while the User of an email has isVerified = false, login with that
\* email answers NotVerified (403, no cookie) whatever the password, right or
\* wrong: the verified check comes before the password comparison.
C1_UnverifiedLoginRejected ==
  \A e \in Emails, w \in Passwords :
    (\E i \in UsersOf(e) : ~users[i].isVerified)
      => /\ LoginResponse(users, e, w, now) = NotVerified
         /\ LoginResponse(users, e, w, now).cookie = <<>>

\* a caller holds the 403 of a login while the account is still unverified
C1_Witness ==
  \E p \in Procs :
    /\ resp[p] = NotVerified
    /\ \E i \in 1..Len(users) : ~users[i].isVerified

\* C2: a lookup that finds a OneTimeCode whose expiresAt is already past does
\* not go on to verify the account (verify-otp) or to replace the password
\* hash (reset-password), purged or not.
C2_ExpiredCodeRejected ==
  [][\A p \in Procs :
       (pc[p] = "idle" /\ pc'[p] \in {"vo_update", "rp_update"})
         => \A o \in otps : o.id = tmp'[p] => ~IsExpired(o, now)]_vars

\* C3: when verify-otp or reset-password returns success for (email, code,
\* purpose), no code matching that triple is left in the store, so that the
\* same request fails until a new code is issued.
C3_NoReplay ==
  [][\A p \in Procs :
       (pc[p] \in {"vo_delete", "rp_delete"} /\ pc'[p] = "idle")
         => OtpMatches(otps', req[p].email, req[p].code,
                       IF pc[p] = "vo_delete" THEN "verification" ELSE "reset") = {}]_vars

\* C4: no two requests have both returned success on the same OneTimeCode
\* record (tmp of a returned request is the _id of the code it consumed).
C4_AtMostOneSuccess ==
  \A p, q \in Procs :
    (p # q /\ pc[p] = "idle" /\ pc[q] = "idle"
       /\ resp[p] \in {Verified, PasswordReset} /\ resp[q] \in {Verified, PasswordReset})
      => tmp[p] # tmp[q]

\* C5: a signup whose User.create loses to a concurrent signup of the same
\* email (the unique index rejects its insert) answers DuplicateEmail.
C5_RaceLoserGetsDuplicateEmail ==
  [][\A p \in Procs :
       (pc[p] = "su_create" /\ pc'[p] = "idle"
          /\ UniqueViolation(users, EmailSetter(req[p].email)))
         => resp'[p] = DuplicateEmail]_vars

\* C6, as claimed: once reset-password has replaced the hash with newPassword
\* (different from the old password), login with the old password does not
\* authenticate and login with newPassword does, with a session cookie.
C6_ResetThenLogin ==
  [][\A p \in Procs :
       (pc[p] = "rp_update" /\ pc'[p] = "rp_delete")
         => \A i \in UsersOf(req[p].email), old \in Passwords :
              (Compare(old, users[i].password) /\ old # req[p].password)
                => /\ LoginResponse(users', req[p].email, old, now).status # 200
                   /\ LoginResponse(users', req[p].email, req[p].password, now).status = 200
                   /\ LoginResponse(users', req[p].email, req[p].password, now).cookie # <<>>]_vars

\* C6, amended: the same for a verified user (login with the old password
\* answers InvalidCredentials); for an unverified user both logins answer
\* NotVerified.
C6_VerifiedResetThenLogin ==
  [][\A p \in Procs :
       (pc[p] = "rp_update" /\ pc'[p] = "rp_delete")
         => \A i \in UsersOf(req[p].email), old \in Passwords :
              (Compare(old, users[i].password) /\ old # req[p].password)
                => LET byOld == LoginResponse(users', req[p].email, old, now)
                       byNew == LoginResponse(users', req[p].email, req[p].password, now)
                   IN IF users[i].isVerified
                        THEN /\ byOld = InvalidCredentials
                             /\ byNew.status = 200
                             /\ byNew.userId = i
                             /\ byNew.cookie # <<>>
                        ELSE /\ byOld = NotVerified
                             /\ byNew = NotVerified]_vars

\* reset-password has written "secret2" for a verified user
C6_Witness ==
  \E p \in Procs :
    /\ pc[p] = "rp_delete"
    /\ req[p].password = "secret2"
    /\ \E i \in UsersOf(req[p].email) :
         users[i].isVerified /\ Compare("secret2", users[i].password)

\* C7, as claimed: login with a registered email and a wrong password, and
\* login with an unregistered email, both answer InvalidCredentials (401,
\* same body).
C7_LoginIndistinguishable ==
  \A e \in Emails, w \in Passwords :
    (UsersOf(e) = {} \/ \E i \in UsersOf(e) : ~Compare(w, users[i].password))
      => LoginResponse(users, e, w, now) = InvalidCredentials

\* C7, amended: the same for a registered email whose account is verified.
C7_VerifiedLoginIndistinguishable ==
  \A e \in Emails, w \in Passwords :
    (UsersOf(e) = {}
       \/ \E i \in UsersOf(e) : users[i].isVerified /\ ~Compare(w, users[i].password))
      => LoginResponse(users, e, w, now) = InvalidCredentials

\* a caller holds InvalidCredentials while a verified account exists beside
\* an unregistered email
C7_Witness ==
  /\ \E p \in Procs : resp[p] = InvalidCredentials
  /\ \E i \in 1..Len(users) : users[i].isVerified
  /\ \E e \in Emails : UsersOf(e) = {}

\* C8: the acknowledgments of forgot-password that callers hold are all the
\* same, for a registered email as for an unregistered one.
C8_ForgotAckIdentical ==
  \A p, q \in Procs :
    (resp[p] \in {ResetSent, ResetNotSent} /\ resp[q] \in {ResetSent, ResetNotSent})
      => resp[p] = resp[q]

\* C9: at most one User per email, emails compared without letter case and
\* surrounding whitespace.
C9_OneUserPerEmail ==
  \A i, j \in 1..Len(users) :
    EmailSetter(users[i].email) = EmailSetter(users[j].email) => i = j

\* a signup lost the race on the unique index, and one User is stored
C9_Witness ==
  /\ Len(users) = 1
  /\ \E p \in Procs : resp[p] = SignupError("E11000 duplicate key error")

\* C10: the store never holds two reset codes for one email, and a
\* forgot-password request that returns leaves that email's code expiring
\* 15 minutes after the request.
C10_OneResetCodePerEmail ==
  [][/\ \A o \in otps' : Cardinality(ResetOtpsOf(otps', o.email)) <= 1
     /\ \A p \in Procs :
          (pc[p] \in {"fp_upsert", "fp_insert"} /\ pc'[p] = "idle")
            => \E o \in ResetOtpsOf(otps', req[p].email) :
                 o.code = StaticCode /\ o.expiresAt = now + ResetTtl]_vars

\* C11: getSession answers the claims userId and role of the cookie's token
\* exactly when the token carries the server secret's signature and the clock
\* is before its exp; for no cookie, an unsigned, a foreign-signed or an
\* expired token it answers null.  The token a client holds from a login
\* expires 24 hours (TokenTtl) after its issue.
C11_SessionValidity ==
  /\ \A c \in Cookies :
       IF c # <<>> /\ c[1].key = JwtSecret /\ now < c[1].exp
         THEN /\ GetSession(c, now).userId = c[1].userId
              /\ GetSession(c, now).role = c[1].role
              /\ GetSession(c, now) # NullSession
         ELSE GetSession(c, now) = NullSession
  /\ \A p \in Procs :
       jar[p] # <<>> => /\ jar[p][1].key = JwtSecret
                        /\ jar[p][1].exp = jar[p][1].iat + TokenTtl
                        /\ jar[p][1].iat <= now

\* a client's token has expired and a session route has answered 401
C11_Witness ==
  \E p \in Procs :
    /\ jar[p] # <<>>
    /\ now >= jar[p][1].exp
    /\ resp[p] = Unauthorized

\* C12: the happy path.  signup(e, w) returns with the user stored unverified
\* under w, role "user" when none was given, and a verification code issued
\* for e that expires in 10 minutes; verify-otp(e, code) on an unexpired code
\* goes on to set isVerified and answers Verified; login(e, w) of a verified
\* user under the right password answers the user's id and role with a token
\* that getSession accepts.
C12_HappyPath ==
  [][\A p \in Procs :
       /\ (pc[p] = "su_otp" /\ pc'[p] = "idle")
            => /\ resp'[p] = SignupCreated(tmp[p])
               /\ ~users'[tmp[p]].isVerified
               /\ Compare(req[p].password, users'[tmp[p]].password)
               /\ req[p].role = "" => users'[tmp[p]].role = "user"
               /\ \E o \in OtpMatches(otps', req[p].email, StaticCode, "verification") :
                    o.expiresAt = now + VerificationTtl
       /\ \A e \in Emails :
            (/\ pc[p] = "idle" /\ pc'[p] # "idle"
             /\ \E o \in OtpMatches(otps, e, StaticCode, "verification") : ~IsExpired(o, now)
             /\ \A o \in OtpMatches(otps, e, StaticCode, "verification") : ~IsExpired(o, now)
             /\ VerifyFind(p, e, StaticCode))
              => pc'[p] = "vo_update"
       /\ (pc[p] = "vo_update" /\ pc'[p] = "vo_delete")
            => /\ UsersOf(req[p].email) # {}
               /\ \A i \in UsersOf(req[p].email) : users'[i].isVerified
       /\ (pc[p] = "vo_delete" /\ pc'[p] = "idle") => resp'[p] = Verified
       /\ \A e \in Emails, w \in Passwords : \A i \in UsersOf(e) :
            (users[i].isVerified /\ Compare(w, users[i].password))
              => LET r == LoginResponse(users, e, w, now) IN
                   /\ r.status = 200
                   /\ r.userId = i
                   /\ r.role = users[i].role
                   /\ GetSession(r.cookie, now) # NullSession
                   /\ GetSession(r.cookie, now).userId = i
                   /\ GetSession(r.cookie, now).role = users[i].role]_vars

\* signup, verify-otp and login have succeeded in turn: the client holds a
\* token getSession accepts for a verified user with role "user"
C12_Witness ==
  \E p \in Procs :
    /\ resp[p].status = 200
    /\ resp[p].cookie # <<>>
    /\ resp[p].cookie = jar[p]
    /\ GetSession(jar[p], now).userId \in 1..Len(users)
    /\ users[GetSession(jar[p], now).userId].isVerified
    /\ resp[p].role = "user"

\* C13: a signup request for an email that is registered (under any spelling
\* of its case and padding) does not get past the duplicate check: the only
\* requests that go on to User.create are for unregistered emails, and the
\* request answered DuplicateEmail has written nothing (the User and Otp
\* collections are as before).
C13_DuplicateSignupRejected ==
  [][\A p \in Procs :
       pc[p] = "idle"
         => /\ pc'[p] = "su_create" => UsersOf(req'[p].email) = {}
            /\ (resp[p] # DuplicateEmail /\ resp'[p] = DuplicateEmail)
                 => /\ pc'[p] = "idle"
                    /\ users' = users
                    /\ otps' = otps
                    /\ nextOtpId' = nextOtpId]_vars

\* a signup has been answered DuplicateEmail with one User stored
C13_Witness ==
  \E p \in Procs :
    /\ resp[p] = DuplicateEmail
    /\ pc[p] = "idle"
    /\ Len(users) = 1

\* C14: changePassword with a valid session.  When currentPassword does not
\* match the stored hash the request answers IncorrectPassword and the User
\* collection is as before; when it matches, the request goes on to save, and
\* when it returns it answers 200 with the hash replaced: login with the
\* former password (different from newPassword) fails and login with
\* newPassword succeeds.
C14_ChangePassword ==
  [][\A p \in Procs :
       /\ \A c \in Cookies, cur \in Passwords, new \in Passwords :
            LET i == UserFindById(users, GetSession(c, now).userId) IN
              (pc[p] = "idle" /\ (pc'[p] # "idle" \/ resp'[p] # NoResp) /\ i # 0
                 /\ PasswordFind(p, c, cur, new))
                => IF Compare(cur, users[i].password)
                     THEN pc'[p] \in {"pw_save", "pw_invalid"} /\ tmp'[p] = i
                     ELSE resp'[p] = IncorrectPassword /\ pc'[p] = "idle" /\ users' = users
       /\ (pc[p] \in {"pw_save", "pw_invalid"} /\ pc'[p] = "idle")
            => LET e == users[tmp[p]].email IN
                 /\ resp'[p] = PasswordUpdated
                 /\ LoginResponse(users', e, req[p].password, now).status = 200
                 /\ \A old \in Passwords :
                      (Compare(old, users[tmp[p]].password) /\ old # req[p].password)
                        => LoginResponse(users', e, old, now) = InvalidCredentials]_vars

\* C15: a session route (get profile, update profile, update preferences,
\* change password) reached without a valid session (no cookie, or a token
\* that is unsigned, foreign-signed or expired) answers Unauthorized and
\* writes nothing; reached with a valid session it reads, and writes, only
\* the User whose _id is the token's userId.
C15_SessionOwnerOnly ==
  [][\A p \in Procs :
       /\ (pc[p] = "idle" /\ (pc'[p] # "idle" \/ resp'[p] # NoResp))
            => \A c \in Cookies :
                 LET valid == c # <<>> /\ c[1].key = JwtSecret /\ now < c[1].exp
                     owner == IF c = <<>> THEN 0 ELSE c[1].userId
                     OthersKept ==
                       /\ Len(users') = Len(users)
                       /\ \A j \in 1..Len(users) : j # owner => users'[j] = users[j]
                     Refused ==
                       /\ resp'[p] = Unauthorized
                       /\ pc'[p] = "idle"
                       /\ users' = users
                       /\ otps' = otps
                 IN /\ ProfileGet(p, c)
                      => IF valid THEN resp'[p].userId = owner /\ users' = users ELSE Refused
                    /\ ProfilePatch(p, c, Rename)
                      => IF valid THEN resp'[p].userId = owner /\ OthersKept ELSE Refused
                    /\ SettingsPatch(p, c, DarkModeOn)
                      => IF valid THEN resp'[p].userId = owner /\ OthersKept ELSE Refused
                    /\ \A w \in Passwords, n \in Passwords :
                         PasswordFind(p, c, w, n)
                           => IF valid
                                THEN users' = users /\ (pc'[p] # "idle" => tmp'[p] = owner)
                                ELSE Refused
       /\ pc[p] \in {"pw_save", "pw_invalid"}
            => \A j \in 1..Len(users) : j # tmp[p] => users'[j] = users[j]]_vars

\* the second account has renamed itself next to the first, which keeps the
\* name it signed up with, and a request without a valid session has been
\* answered 401
C15_Witness ==
  /\ Len(users) = 2
  /\ users[2].name = "Bob"
  /\ users[1].name = SignupName
  /\ users[2].preferences.darkMode
  /\ ~users[1].preferences.darkMode
  /\ \E p \in Procs : resp[p] = Unauthorized

\* C16: no revocation.  The token a client holds from a login is accepted by
\* getSession, and so by the profile, settings and password routes (none
\* answers 401), as long as the clock is within 24 hours of its issue, in
\* every reachable state: whatever was done to the account since, a password
\* change and a password reset included.  No handler takes the cookie away.
C16_NoRevocation ==
  [][\A p \in Procs :
       (jar[p] # <<>> /\ now < jar[p][1].iat + TokenTtl)
         => /\ GetSession(jar[p], now) = Decoded(jar[p][1])
            /\ jar'[p] # <<>>
            /\ (pc[p] = "idle" /\ (pc'[p] # "idle" \/ resp'[p] # NoResp))
                 => /\ ProfileGet(p, jar[p]) => resp'[p].status # 401
                    /\ ProfilePatch(p, jar[p], BlankName) => resp'[p].status # 401
                    /\ SettingsPatch(p, jar[p], NoPreferences) => resp'[p].status # 401
                    /\ \A w \in Passwords, n \in Passwords :
                         PasswordFind(p, jar[p], w, n) => resp'[p].status # 401]_vars

\* a password reset has succeeded hours after the login that issued the
\* client's token, which has not expired
C16_Witness ==
  \E p \in Procs :
    /\ resp[p] = PasswordReset
    /\ jar[p] # <<>>
    /\ jar[p][1].iat < now
    /\ now < jar[p][1].exp

\* C17: when the store call a handler awaits fails, the handler answers 500
\* with a generic message and no detail of the failure (no error message of
\* the store) in the body.
C17_FailureIsGeneric ==
  [][\A p \in Procs, op \in Ops, c \in Cookies :
       StoreFailure(p, op, c)
         => /\ resp'[p].status = 500
            /\ resp'[p].error = ""]_vars

\* C18: update profile and update preferences leave every User's email,
\* password hash, role and isVerified as they were, and the Otp collection
\* as it was, whatever the cookie and the body.
C18_CredentialsUntouched ==
  [][\A p \in Procs :
       (pc[p] = "idle" /\ pc'[p] = "idle" /\ resp'[p] # NoResp)
         => \A c \in Cookies :
              (\/ \E b \in ProfileBodies : ProfilePatch(p, c, b)
               \/ \E b \in SettingsBodies : SettingsPatch(p, c, b))
                => /\ Len(users') = Len(users)
                   /\ \A i \in 1..Len(users) :
                        /\ users'[i].email = users[i].email
                        /\ users'[i].password = users[i].password
                        /\ users'[i].role = users[i].role
                        /\ users'[i].isVerified = users[i].isVerified
                   /\ otps' = otps
                   /\ nextOtpId' = nextOtpId]_vars

\* a verified user has changed profile fields and preferences
C18_Witness ==
  \E i \in 1..Len(users) :
    /\ users[i].isVerified
    /\ users[i].name = "Bob"
    /\ users[i].bio = "hi"
    /\ users[i].preferences.darkMode
    /\ ~users[i].preferences.notificationsEnabled

\* C19: update profile and update preferences are partial merges.  With a
\* valid session, each of name, bio, phoneNumber, image (profile) and of
\* notificationsEnabled, darkMode, newsletterSubscribed (preferences) takes
\* the value the request carries and keeps its stored value when the request
\* does not carry it; the profile route leaves the preferences alone and the
\* settings route the profile fields.
C19_PartialMerge ==
  [][\A p \in Procs :
       (pc[p] = "idle" /\ pc'[p] = "idle" /\ resp'[p] # NoResp)
         => \A c \in Cookies :
              LET i == UserFindById(users, GetSession(c, now).userId)
                  Merged(field, before, after) ==
                    after = IF field = <<>> THEN before ELSE field[1]
              IN i # 0
                   => /\ \A b \in ProfileBodies :
                           ProfilePatch(p, c, b)
                             => /\ Merged(b.name, users[i].name, users'[i].name)
                                /\ Merged(b.bio, users[i].bio, users'[i].bio)
                                /\ Merged(b.phoneNumber, users[i].phoneNumber, users'[i].phoneNumber)
                                /\ Merged(b.image, users[i].image, users'[i].image)
                                /\ users'[i].preferences = users[i].preferences
                      /\ \A b \in SettingsBodies :
                           SettingsPatch(p, c, b)
                             => IF b.preferences = <<>>
                                  THEN users' = users
                                  ELSE /\ Merged(b.preferences[1].notificationsEnabled,
                                                 users[i].preferences.notificationsEnabled,
                                                 users'[i].preferences.notificationsEnabled)
                                       /\ Merged(b.preferences[1].darkMode,
                                                 users[i].preferences.darkMode,
                                                 users'[i].preferences.darkMode)
                                       /\ Merged(b.preferences[1].newsletterSubscribed,
                                                 users[i].preferences.newsletterSubscribed,
                                                 users'[i].preferences.newsletterSubscribed)
                                       /\ users'[i].name = users[i].name
                                       /\ users'[i].bio = users[i].bio
                                       /\ users'[i].phoneNumber = users[i].phoneNumber
                                       /\ users'[i].image = users[i].image]_vars

\* the settings route has answered, with the name and bio given earlier and
\* one preference switched while another keeps its default
C19_Witness ==
  \E p \in Procs, i \in 1..Len(users) :
    /\ resp[p] = SettingsUpdated(i)
    /\ users[i].name = "Bob"
    /\ users[i].bio = "hi"
    /\ users[i].image = ""
    /\ users[i].preferences.newsletterSubscribed
    /\ users[i].preferences.notificationsEnabled

\* C20: a reset code is created or refreshed only by a forgot-password
\* request whose email is that of a stored User (emails compared as the User
\* schema stores them: lower case, trimmed).  Every reset code in the store,
\* and every forgot-password request on its way to the upsert, is for the
\* email of some User; the request answered for an unregistered email has
\* left both collections as they were.
C20_ResetCodeOnlyForUser ==
  [][/\ \A o \in otps : o.type = "reset" => UsersOf(o.email) # {}
     /\ \A p \in Procs :
          /\ pc[p] \in {"fp_upsert", "fp_insert"} => UsersOf(req[p].email) # {}
          /\ (pc[p] = "idle" /\ resp[p] # ResetNotSent /\ resp'[p] = ResetNotSent)
               => /\ otps' = otps
                  /\ nextOtpId' = nextOtpId
                  /\ users' = users]_vars

\* a reset code is stored, and a request for an unregistered email has been
\* acknowledged
C20_Witness ==
  /\ \E o \in otps : o.type = "reset"
  /\ \E p \in Procs : resp[p] = ResetNotSent

\* C21: a reset-password request answered "Invalid or expired reset code"
\* has left both collections as they were (no password replaced, no code
\* deleted), and a request goes on to the password update only with a stored
\* code of type reset that carries the email and the code it submitted: with
\* no code for the email, a wrong code or a verification code it fails.
C21_FailedResetChangesNothing ==
  [][\A p \in Procs :
       /\ (pc[p] = "idle" /\ resp[p] # InvalidResetCode /\ resp'[p] = InvalidResetCode)
            => /\ users' = users
               /\ otps' = otps
       /\ (pc[p] = "idle" /\ pc'[p] = "rp_update")
            => \E o \in otps :
                 /\ o.id = tmp'[p]
                 /\ o.type = "reset"
                 /\ o.email = req'[p].email
                 /\ o.code = req'[p].code]_vars

\* a reset-password has been refused while a user's verification code and
\* reset code are both stored
C21_Witness ==
  /\ \E p \in Procs : resp[p] = InvalidResetCode
  /\ \E o \in otps : o.type = "verification" /\ UsersOf(o.email) # {}
  /\ \E o \in otps : o.type = "reset"

\* C22: verify-otp takes its expired branch exactly when the verification
\* code it found has its expiresAt in the past; the branch deletes that code
\* record (and no other), answers 400 "Verification code has expired" and
\* leaves the User collection as it was, and afterwards no record matches
\* the same email and code, so that the same request finds nothing.
C22_ExpiredCodeDeleted ==
  [][\A p \in Procs :
       /\ (pc[p] = "idle" /\ pc'[p] \in {"vo_expired", "vo_update"})
            => \E o \in otps :
                 /\ o.id = tmp'[p]
                 /\ o.type = "verification"
                 /\ o.email = req'[p].email
                 /\ o.code = req'[p].code
                 /\ (pc'[p] = "vo_expired") = (now > o.expiresAt)
       /\ (pc[p] = "vo_expired" /\ pc'[p] = "idle")
            => /\ resp'[p] = VerificationExpired
               /\ resp'[p].status = 400
               /\ otps' = {o \in otps : o.id # tmp[p]}
               /\ users' = users
               /\ \A o \in otps' :
                    ~(o.email = req[p].email /\ o.code = req[p].code
                        /\ o.type = "verification")]_vars

\* the expired branch has answered: the code is gone and the account is
\* still unverified
C22_Witness ==
  \E p \in Procs :
    /\ resp[p] = VerificationExpired
    /\ \E i \in 1..Len(users) : ~users[i].isVerified
    /\ \A o \in otps : o.type # "verification"

\* C23: one-time codes follow the case-insensitive identity of User emails:
\* a stored code is found by the lookup of verify-otp / reset-password under
\* every spelling of its email that differs in letter case only, and no two
\* reset codes are stored for spellings of one email.
C23_CodesFollowEmailIdentity ==
  /\ \A o \in otps, e \in {EmailA, EmailACase} :
       ToLowerCase(e) = ToLowerCase(o.email) => o \in OtpMatches(otps, e, o.code, o.type)
  /\ \A o1, o2 \in otps :
       (o1.type = "reset" /\ o2.type = "reset"
          /\ ToLowerCase(o1.email) = ToLowerCase(o2.email))
         => o1 = o2

\* C24: at most one mongoose.connect is in flight at any time, however the
\* calls of connectToDatabase interleave with each other and with attempts
\* that resolve or reject, and once cached.conn is set no call starts
\* another connect.
C24_OneConnectInFlight ==
  [][/\ Cardinality(InFlight(connects')) <= 1
     /\ cached.conn # 0 => Len(connects') = Len(connects)]_vars

\* after a rejected attempt, three concurrent calls await the one attempt
\* that followed it
C24_Witness ==
  /\ connects = <<"rejected", "pending">>
  /\ Len(waiters) = 3
  /\ \A i \in 1..Len(waiters) : waiters[i].on = 2

\* C25: when the pending promise rejects, the continuation of every call
\* awaiting it is queued; each of them gives its caller the error, clears
\* cached.promise and leaves cached.conn null; and a call that suspends
\* while no connection is cached awaits a pending attempt, a new one when
\* cached.promise was cleared, never the rejected promise.
C25_RetryAfterRejection ==
  [][/\ \A k \in 1..Len(connects) :
          (connects[k] = "pending" /\ connects'[k] = "rejected")
            => \A i \in 1..Len(waiters) :
                 waiters[i].on = k => \E j \in 1..Len(jobs') : jobs'[j] = waiters[i]
     /\ (jobs # <<>> /\ connects[Head(jobs).on] = "rejected")
          => /\ outcome'[Head(jobs).proc] = "error"
             /\ cached'.promise = 0
             /\ cached'.conn = 0
     /\ \A p \in Callers :
          (CanArrive /\ ~Connecting(p) /\ outcome[p] = "error" /\ outcome'[p] = "none")
            => /\ cached'.promise \in InFlight(connects')
               /\ cached.promise = 0 => Len(connects') = Len(connects) + 1
               /\ \E i \in 1..Len(waiters') :
                    waiters'[i] = [proc |-> p, on |-> cached'.promise]]_vars

\* two callers got the error of the first attempt, and a later call has
\* started the second
C25_Witness ==
  /\ connects = <<"rejected", "pending">>
  /\ cached = [conn |-> 0, promise |-> 2]
  /\ Cardinality({p \in Callers : outcome[p] = "error"}) = 2

\* C26: for every stored User, the verification codes stored for its email
\* (emails compared as the User schema stores them) and the signup requests
\* about to write one number at most one together; every verification code
\* is for the email of a stored User; and a signup is about to write a code
\* only after it has itself inserted the User of its email.  So a signup
\* that created no User writes no code, concurrent signups included.
C26_OneVerificationCodePerUser ==
  /\ \A i \in 1..Len(users) :
       Cardinality({o \in otps : o.type = "verification"
                                  /\ EmailSetter(o.email) = users[i].email})
         + Cardinality({p \in Procs : pc[p] = "su_otp"
                                       /\ EmailSetter(req[p].email) = users[i].email})
         <= 1
  /\ \A o \in otps : o.type = "verification" => UsersOf(o.email) # {}
  /\ \A p \in Procs :
       pc[p] = "su_otp" => /\ tmp[p] \in 1..Len(users)
                           /\ users[tmp[p]].email = EmailSetter(req[p].email)

\* of two signups racing on one email, one created the User and its
\* verification code and the other was refused by the unique index
C26_Witness ==
  /\ Len(users) = 1
  /\ Cardinality({o \in otps : o.type = "verification"}) = 1
  /\ \E p, q \in Procs :
       /\ resp[p] = SignupCreated(1)
       /\ resp[q] = SignupError("E11000 duplicate key error")

\* C27: an unverified account is never locked out: for every User with
\* isVerified = false there is still a way to isVerified = true, that is, a
\* verification code for its email that has not expired is stored, or the
\* signup that inserted the User is about to write one, or a verify-otp that
\* found the code in time is about to update the User (no other step of any
\* handler issues a verification code or sets isVerified).
C27_NeverLockedOut ==
  \A i \in 1..Len(users) :
    ~users[i].isVerified
      => \/ \E o \in otps : /\ o.type = "verification"
                             /\ EmailSetter(o.email) = users[i].email
                             /\ ~IsExpired(o, now)
         \/ \E p \in Procs : pc[p] = "su_otp" /\ tmp[p] = i
         \/ \E p \in Procs : /\ pc[p] = "vo_update"
                              /\ EmailSetter(req[p].email) = users[i].email

\* C28: isVerified never goes from true to false, and it goes from false to
\* true only in the update step of a verify-otp request for that User's
\* email; a verify-otp request reaches its update step only when its lookup
\* found a stored code of type verification, unexpired, carrying the email
\* and code of the request.  No step of forgot-password, reset-password,
\* login, the password change or the profile / settings updates changes it.
C28_VerifiedOnlyByVerifyOtp ==
  [][/\ Len(users') >= Len(users)
     /\ \A i \in 1..Len(users) :
          /\ users[i].isVerified => users'[i].isVerified
          /\ (~users[i].isVerified /\ users'[i].isVerified)
               => \E p \in Procs :
                    /\ pc[p] = "vo_update"
                    /\ pc'[p] = "vo_delete"
                    /\ req[p].op = "verify"
                    /\ EmailSetter(req[p].email) = users[i].email
     /\ \A p \in Procs :
          (pc[p] # "vo_update" /\ pc'[p] = "vo_update")
            => \E o \in otps :
                 /\ o.id = tmp'[p]
                 /\ o.type = "verification"
                 /\ o.email = req'[p].email
                 /\ o.code = req'[p].code
                 /\ ~(now > o.expiresAt)]_vars

\* a verified account has been through forgot-password and a password change
C28_Witness ==
  /\ \E p \in Procs : resp[p] = PasswordUpdated
  /\ \E i \in 1..Len(users) : users[i].isVerified
  /\ \E o \in otps : o.type = "reset"

C30_SignupAllOrNothing ==
  [][\A p \in Procs :
       /\ (pc[p] \in {"idle", "su_create"} /\ pc'[p] = "idle"
              /\ resp'[p] # resp[p]
              /\ resp'[p] \in {DuplicateEmail, SignupError(StoreDown),
                                SignupError("User validation failed"),
                                SignupError("E11000 duplicate key error")})
            => users' = users
       /\ (pc[p] = "su_otp" /\ pc'[p] = "idle" /\ resp'[p].status \in {400, 500})
            => /\ UsersOf(req[p].email)' = {}
               /\ \A i \in 1..Len(users') :
                    ~users'[i].isVerified
                      => \E o \in otps' : /\ o.type = "verification"
                                           /\ EmailSetter(o.email) = users'[i].email]_vars

====
